---- MODULE Spec2Model ----
(***************************************************************************)
(* Release flow of cargo-changelog: src/command/release_command.rs.        *)
(*                                                                         *)
(* Text is modelled as a sequence of one-character strings, so that        *)
(* parsing a path component as a semantic version, printing a version and  *)
(* comparing two strings are computed, not assumed.                        *)
(***************************************************************************)
EXTENDS Naturals, Sequences, FiniteSets

\* ------------------------------------------------------------------ bounds

\* Most entries WalkDir yields besides the template file, in Spec.
MaxEntries == 2
\* Longest path (number of components) in SpecPath.
MaxDepth == 3

\* ------------------------------------------------------------------- text

\* The characters of the model in ascending byte order (ASCII).
Alphabet ==
    << "+", "-", ".", "0", "1", "2", "3", "4", "5", "6", "7", "8", "9",
       "a", "b", "c", "d", "e", "f", "g", "h", "i", "k", "l", "m", "n",
       "o", "p", "r", "s", "t", "u", "w", "x" >>

Digits == << "0", "1", "2", "3", "4", "5", "6", "7", "8", "9" >>

\* The byte order of a character: its position in Alphabet.
CharOrd(c) == CHOOSE i \in 1..Len(Alphabet) : Alphabet[i] = c

IsDigit(c) == \E i \in 1..Len(Digits) : Digits[i] = c

DigitValue(c) == (CHOOSE i \in 1..Len(Digits) : Digits[i] = c) - 1

\* <str as Ord>::cmp(a, b) = Less: bytewise lexicographic order, a proper
\* prefix before the longer string.
RECURSIVE StrLess(_, _)
StrLess(a, b) ==
    IF b = << >> THEN FALSE
    ELSE IF a = << >> THEN TRUE
    ELSE IF Head(a) # Head(b) THEN CharOrd(Head(a)) < CharOrd(Head(b))
    ELSE StrLess(Tail(a), Tail(b))

\* The first position of character c in s, 0 when there is none.
IndexOf(s, c) ==
    IF \E i \in 1..Len(s) : s[i] = c
    THEN CHOOSE i \in 1..Len(s) : s[i] = c /\ \A j \in 1..(i - 1) : s[j] # c
    ELSE 0

\* s split at every occurrence of c (as str::split does: "a..b" has an
\* empty middle part, "" has one empty part).
RECURSIVE SplitOn(_, _)
SplitOn(s, c) ==
    LET i == IndexOf(s, c)
    IN  IF i = 0 THEN << s >>
        ELSE << SubSeq(s, 1, i - 1) >> \o SplitOn(SubSeq(s, i + 1, Len(s)), c)

AllDigits(s) == \A i \in 1..Len(s) : IsDigit(s[i])

RECURSIVE StrToNat(_)
StrToNat(s) ==
    IF s = << >> THEN 0
    ELSE StrToNat(SubSeq(s, 1, Len(s) - 1)) * 10 + DigitValue(s[Len(s)])

RECURSIVE NatToStr(_)
NatToStr(n) ==
    IF n < 10 THEN << Digits[n + 1] >>
    ELSE NatToStr(n \div 10) \o << Digits[(n % 10) + 1] >>

\* --------------------------------------------------------- semver::Version

\* A numeric field of a version: digits only, not empty, no leading zero.
IsNumericField(s) ==
    /\ s # << >>
    /\ AllDigits(s)
    /\ (Len(s) > 1 => s[1] # "0")

\* An identifier of the pre-release or of the build metadata: not empty,
\* only [0-9A-Za-z-].
IsIdentifier(s) ==
    /\ s # << >>
    /\ \A i \in 1..Len(s) : s[i] \notin {"+", "."}

\* Pre-release: identifiers separated by dots, a numeric one without leading
\* zero.
IsPrerelease(s) ==
    \A i \in 1..Len(SplitOn(s, ".")) :
        LET id == SplitOn(s, ".")[i]
        IN  /\ IsIdentifier(id)
            /\ (AllDigits(id) /\ Len(id) > 1 => id[1] # "0")

IsBuildMetadata(s) ==
    \A i \in 1..Len(SplitOn(s, ".")) : IsIdentifier(SplitOn(s, ".")[i])

\* The value of a failed parse.
NoVersion ==
    [ok |-> FALSE, major |-> 0, minor |-> 0, patch |-> 0,
     pre |-> << >>, build |-> << >>]

\* semver::Version::parse: MAJOR.MINOR.PATCH[-PRERELEASE][+BUILD].
VersionParse(s) ==
    LET plus   == IndexOf(s, "+")
        noBld  == IF plus = 0 THEN s ELSE SubSeq(s, 1, plus - 1)
        build  == IF plus = 0 THEN << >> ELSE SubSeq(s, plus + 1, Len(s))
        dash   == IndexOf(noBld, "-")
        core   == IF dash = 0 THEN noBld ELSE SubSeq(noBld, 1, dash - 1)
        pre    == IF dash = 0 THEN << >>
                  ELSE SubSeq(noBld, dash + 1, Len(noBld))
        fields == SplitOn(core, ".")
    IN  IF /\ Len(fields) = 3
           /\ \A i \in 1..3 : IsNumericField(fields[i])
           /\ (dash # 0 => IsPrerelease(pre))
           /\ (plus # 0 => IsBuildMetadata(build))
        THEN [ok |-> TRUE,
              major |-> StrToNat(fields[1]),
              minor |-> StrToNat(fields[2]),
              patch |-> StrToNat(fields[3]),
              pre |-> pre, build |-> build]
        ELSE NoVersion

\* <semver::Version as Display>::fmt, what version.to_string() returns.
VersionToString(v) ==
    NatToStr(v.major) \o << "." >> \o NatToStr(v.minor) \o << "." >>
        \o NatToStr(v.patch)
        \o (IF v.pre = << >> THEN << >> ELSE << "-" >> \o v.pre)
        \o (IF v.build = << >> THEN << >> ELSE << "+" >> \o v.build)

\* ------------------------------------------------------------------ paths

\* std::path::Component: a Normal component holds an OsStr, which is either
\* valid UTF-8 (its text) or not.
Normal(text) == [kind |-> "Normal", text |-> text, utf8 |-> TRUE]
NonUtf8 == [kind |-> "Normal", text |-> << >>, utf8 |-> FALSE]
RootDir == [kind |-> "RootDir", text |-> << >>, utf8 |-> TRUE]
ParentDir == [kind |-> "ParentDir", text |-> << >>, utf8 |-> TRUE]

\* Path::join of a relative path.
Join(base, rel) == base \o rel

\* Path::ends_with: the components of child are the last ones of path.
EndsWith(path, child) ==
    /\ Len(child) <= Len(path)
    /\ SubSeq(path, Len(path) - Len(child) + 1, Len(path)) = child

\* Results of get_version_from_path: Err(e), Ok(None), Ok(Some(version)).
VersionErr == [tag |-> "Err", version |-> NoVersion]
VersionNone == [tag |-> "None", version |-> NoVersion]
VersionSome(v) == [tag |-> "Some", version |-> v]

\* A variant that searches from the leaf (rev().find_map): the last
\* version-like component wins.
RECURSIVE get_version_from_path_last(_)
get_version_from_path_last(path) ==
    IF path = << >> THEN VersionNone
    ELSE LET comp == path[Len(path)]
             rest == SubSeq(path, 1, Len(path) - 1)
         IN  IF comp.kind = "Normal"
             THEN IF ~comp.utf8 THEN VersionErr
                  ELSE IF VersionParse(comp.text).ok
                       THEN VersionSome(VersionParse(comp.text))
                       ELSE get_version_from_path_last(rest)
             ELSE get_version_from_path_last(rest)

\* A variant in which a component that does not parse ends the search with
\* an error (Err(e) => Some(Err(e))).
RECURSIVE get_version_from_path_strict(_)
get_version_from_path_strict(path) ==
    IF path = << >> THEN VersionNone
    ELSE LET comp == Head(path)
         IN  IF comp.kind = "Normal"
             THEN IF ~comp.utf8 THEN VersionErr
                  ELSE IF VersionParse(comp.text).ok
                       THEN VersionSome(VersionParse(comp.text))
                       ELSE VersionErr
             ELSE get_version_from_path_strict(Tail(path))

\* get_version_from_path: find_map over the components, root to leaf; the
\* first Some(..) ends the search, be it Some(Err) of a component that is not
\* UTF-8 or Some(Ok) of one that parses.
RECURSIVE get_version_from_path(_)
get_version_from_path(path) ==
    IF path = << >> THEN VersionNone
    ELSE LET comp == Head(path)
         IN  IF comp.kind = "Normal"
             THEN IF ~comp.utf8 THEN VersionErr
                  ELSE IF VersionParse(comp.text).ok
                       THEN VersionSome(VersionParse(comp.text))
                       ELSE get_version_from_path(Tail(path))
             ELSE get_version_from_path(Tail(path))

\* -------------------------------------------------------------- file names

t_w == << "w" >>
t_frags == << "f", "r", "a", "g", "s" >>
t_template_md == << "t", "e", "m", "p", "l", "a", "t", "e", ".", "m", "d" >>
t_custom_md == << "c", "u", "s", "t", "o", "m", ".", "m", "d" >>
t_notes_md == << "n", "o", "t", "e", "s", ".", "m", "d" >>
t_bad_md == << "b", "a", "d", ".", "m", "d" >>
t_locked_md == << "l", "o", "c", "k", "e", "d", ".", "m", "d" >>
t_a_md == << "a", ".", "m", "d" >>
t_b_md == << "b", ".", "m", "d" >>
t_c_md == << "c", ".", "m", "d" >>
t_d_md == << "d", ".", "m", "d" >>
t_e_md == << "e", ".", "m", "d" >>
t_f_md == << "f", ".", "m", "d" >>
t_g_md == << "g", ".", "m", "d" >>
t_0_1_0 == << "0", ".", "1", ".", "0" >>
t_0_2_0 == << "0", ".", "2", ".", "0" >>
t_0_9_0 == << "0", ".", "9", ".", "0" >>
t_0_10_0 == << "0", ".", "1", "0", ".", "0" >>
t_1_0_0 == << "1", ".", "0", ".", "0" >>
t_1_0_0_alpha == << "1", ".", "0", ".", "0", "-", "a", "l", "p", "h", "a" >>
t_2_0_0 == << "2", ".", "0", ".", "0" >>
t_1_0 == << "1", ".", "0" >>
t_01_0_0 == << "0", "1", ".", "0", ".", "0" >>
t_1_0_0_b7 == << "1", ".", "0", ".", "0", "+", "b", "7" >>

\* ------------------------------------------------------------------ state

VARIABLES
    workdir,        \* execute's workdir: an absolute path
    fragment_dir,   \* config.fragment_dir(): relative to workdir
    template_path,  \* config.template_path(): relative to the fragment dir
    walk,           \* what WalkDir yields for the fragment dir, in order
    pc,             \* execute's position
    trace,          \* per walk entry pulled so far: what load_release_files did
    template_data,  \* compute_template_data's return value
    changelog_file, \* the changelog file on disk
    outcome,        \* execute's return value
    path,           \* SpecPath: the argument of get_version_from_path
    path_version    \* SpecPath: its return value

vars ==
    << workdir, fragment_dir, template_path, walk, pc, trace, template_data,
       changelog_file, outcome, path, path_version >>

\* ------------------------------------------------------- the fragment tree

\* A directory entry of the walk: a regular file with what its content is
\* ("fragment": decodes, "broken": a header that does not decode,
\* "unreadable": cannot be opened, "template": a handlebars template), a
\* directory, or an error of the walk itself.
File(rel, content) == [kind |-> "file", rel |-> rel, content |-> content]
Dir(rel) == [kind |-> "dir", rel |-> rel, content |-> "none"]
WalkError == [kind |-> "err", rel |-> << >>, content |-> "none"]

\* The entries a fragment tree is made of, paths relative to the fragment dir.
TreeEntries ==
    { File(<< Normal(t_0_1_0), Normal(t_a_md) >>, "fragment"),
      File(<< Normal(t_0_1_0), Normal(t_b_md) >>, "fragment"),
      File(<< Normal(t_0_2_0), Normal(t_c_md) >>, "fragment"),
      File(<< Normal(t_0_9_0), Normal(t_d_md) >>, "fragment"),
      File(<< Normal(t_0_10_0), Normal(t_e_md) >>, "fragment"),
      File(<< Normal(t_1_0_0_alpha), Normal(t_f_md) >>, "fragment"),
      File(<< Normal(t_1_0_0), Normal(t_g_md) >>, "fragment"),
      File(<< Normal(t_0_1_0), Normal(t_template_md) >>, "fragment"),
      File(<< Normal(t_0_1_0), Normal(t_bad_md) >>, "broken"),
      File(<< Normal(t_0_2_0), Normal(t_locked_md) >>, "unreadable"),
      File(<< Normal(t_notes_md) >>, "broken"),
      File(<< NonUtf8 >>, "fragment"),
      Dir(<< Normal(t_0_1_0) >>),
      WalkError }

\* The template file execute reads: fragment_dir/template_path.
TemplateEntry(tp) == File(tp, "template")

WorkDirs ==
    { << RootDir, Normal(t_w) >>,
      << RootDir, Normal(t_2_0_0), Normal(t_w) >> }

TemplatePaths == { << Normal(t_template_md) >>, << Normal(t_custom_md) >> }

\* Sequences of at most n distinct tree entries.
DistinctSeqs(n) ==
    UNION { { s \in [1..k -> TreeEntries] :
                \A i, j \in 1..k : i # j => s[i] # s[j] } : k \in 0..n }

InsertAt(s, pos, e) == SubSeq(s, 1, pos) \o << e >> \o SubSeq(s, pos + 1, Len(s))

\* ----------------------------------------------------- load_release_files

\* The path of a directory entry: WalkDir::new(root) yields root joined with
\* the entry's path below it, and root is workdir.join(config.fragment_dir()).
WalkRoot(wd, fd) == Join(wd, fd)
EntryPath(wd, fd, e) == Join(WalkRoot(wd, fd), e.rel)

\* The file name the first filter leaves out.
ExcludedName == << Normal(t_template_md) >>

\* The first filter_map: a walk error is passed on, a regular file is a
\* candidate unless its path ends with "template.md", all else is dropped.
\* "err", "candidate" or "dropped".
FirstFilter(wd, fd, e) ==
    IF e.kind = "err" THEN "err"
    ELSE IF e.kind = "file"
         THEN IF EndsWith(EntryPath(wd, fd, e), ExcludedName)
              THEN "dropped"
              ELSE "candidate"
         ELSE "dropped"

\* Error values (miette reports): the kind, and the path of the file the
\* error value names, if it names one.
NoPath == << >>
ErrWalkDir == [kind |-> "WalkDir", path |-> NoPath]
ErrUtf8Path == [kind |-> "Utf8InPath", path |-> NoPath]
\* Error::from(std::io::Error) is Error::Io: the io::Error of a failed open
\* holds the OS error only.
ErrIo == [kind |-> "Io", path |-> NoPath]
\* Fragment::from_reader gets the reader alone; what it returns is a
\* FragmentError, and no kind of FragmentError holds a path.
ErrFragment == [kind |-> "FragmentError", path |-> NoPath]
NoError == [kind |-> "none", path |-> NoPath]

\* OpenOptions::new().read(true).open(de.path())
OpenFile(e) == IF e.content = "unreadable" THEN ErrIo ELSE NoError

\* Fragment::from_reader on the opened file.
FragmentFromReader(e) == IF e.content = "fragment" THEN NoError ELSE ErrFragment

\* What load_release_files does with one entry of the walk: the item it
\* yields ("none": nothing; "ok": (version, fragment); "err": an error),
\* and whether it opened the file.  A fragment is named by its file's path.
Step(yield, version, fragment, err, opened) ==
    [yield |-> yield, version |-> version, fragment |-> fragment,
     err |-> err, opened |-> opened]

\* A variant of the second filter_map that reports a file without a version
\* instead of skipping it (Ok(None) => return Some(Err(..))).
SecondFilterReportsNoVersion(wd, fd, e) ==
    LET p == EntryPath(wd, fd, e)
        v == get_version_from_path(p)
    IN  IF v.tag # "Some" THEN Step("err", NoVersion, NoPath, ErrUtf8Path, FALSE)
        ELSE IF OpenFile(e) # NoError
             THEN Step("err", NoVersion, NoPath, OpenFile(e), TRUE)
        ELSE IF FragmentFromReader(e) # NoError
             THEN Step("err", NoVersion, NoPath, FragmentFromReader(e), TRUE)
        ELSE Step("ok", v.version, p, NoError, TRUE)

\* The second filter_map on a candidate.
SecondFilter(wd, fd, e) ==
    LET p == EntryPath(wd, fd, e)
        v == get_version_from_path(p)
    IN  IF v.tag = "Err" THEN Step("err", NoVersion, NoPath, ErrUtf8Path, FALSE)
        ELSE IF v.tag = "None"
             THEN Step("none", NoVersion, NoPath, NoError, FALSE)
        ELSE IF OpenFile(e) # NoError
             THEN Step("err", NoVersion, NoPath, OpenFile(e), TRUE)
        ELSE IF FragmentFromReader(e) # NoError
             THEN Step("err", NoVersion, NoPath, FragmentFromReader(e), TRUE)
        ELSE Step("ok", v.version, p, NoError, TRUE)

LoadStep(wd, fd, e) ==
    LET f == FirstFilter(wd, fd, e)
    IN  IF f = "err" THEN Step("err", NoVersion, NoPath, ErrWalkDir, FALSE)
        ELSE IF f = "dropped"
             THEN Step("none", NoVersion, NoPath, NoError, FALSE)
        ELSE SecondFilter(wd, fd, e)

\* load_release_files: the lazy iterator's steps over the whole walk.
load_release_files(wd, fd, w) == [i \in 1..Len(w) |-> LoadStep(wd, fd, w[i])]

\* ---------------------------------------------------- compute_template_data

\* A variant that replaces the bucket: hm.insert(key, vec![fragment]).
HmInsert(hm, key, fragment) ==
    [k \in DOMAIN hm \cup {key} |-> IF k = key THEN << fragment >> ELSE hm[k]]

\* hm.entry(key).or_insert_with(Vec::new).push(fragment)
HmPush(hm, key, fragment) ==
    [k \in DOMAIN hm \cup {key} |->
        IF k = key
        THEN IF key \in DOMAIN hm THEN Append(hm[key], fragment)
             ELSE << fragment >>
        ELSE hm[k]]

EmptyHm == [k \in {} |-> << >>]

\* The comparison sorted_by is given, on the buckets' version strings:
\* va.version.cmp(&vb.version) = Less.
VersionDataLess(va, vb) == StrLess(va, vb)

\* hm.into_iter().map(..).sorted_by(..): the keys are distinct, so whatever
\* order the HashMap iterates in, the sorted sequence is the same.
RECURSIVE SortedBuckets(_)
SortedBuckets(hm) ==
    IF DOMAIN hm = {} THEN << >>
    ELSE LET least == CHOOSE k \in DOMAIN hm :
                         \A o \in DOMAIN hm \ {k} : VersionDataLess(k, o)
         IN  << [version |-> least, entries |-> hm[least]] >>
             \o SortedBuckets([k \in DOMAIN hm \ {least} |-> hm[k]])

\* A variant of the for loop that leaves errors out instead of returning
\* them (for r in release_files.flatten()).
RECURSIVE CollectFromIgnoringErrors(_, _, _)
CollectFromIgnoringErrors(steps, i, hm) ==
    IF i > Len(steps)
    THEN [tag |-> "Ok", hm |-> hm, err |-> NoError, pulled |-> Len(steps)]
    ELSE IF steps[i].yield = "ok"
         THEN CollectFromIgnoringErrors(steps, i + 1,
                  HmPush(hm, VersionToString(steps[i].version),
                         steps[i].fragment))
    ELSE CollectFromIgnoringErrors(steps, i + 1, hm)

\* The for loop: the steps from position i on, r? returning the first error.
\* The number of entries pulled from the iterator goes with the result.
RECURSIVE CollectFrom(_, _, _)
CollectFrom(steps, i, hm) ==
    IF i > Len(steps)
    THEN [tag |-> "Ok", hm |-> hm, err |-> NoError, pulled |-> Len(steps)]
    ELSE IF steps[i].yield = "err"
         THEN [tag |-> "Err", hm |-> hm, err |-> steps[i].err, pulled |-> i]
    ELSE IF steps[i].yield = "ok"
         THEN CollectFrom(steps, i + 1,
                  HmPush(hm, VersionToString(steps[i].version),
                         steps[i].fragment))
    ELSE CollectFrom(steps, i + 1, hm)

\* compute_template_data: Err(e), or Ok of the map with the one key
\* "versions".
compute_template_data(steps) ==
    LET c == CollectFrom(steps, 1, EmptyHm)
    IN  IF c.tag = "Err"
        THEN [tag |-> "Err", keys |-> {}, versions |-> << >>, err |-> c.err,
              pulled |-> c.pulled]
        ELSE [tag |-> "Ok", keys |-> {"versions"},
              versions |-> SortedBuckets(c.hm), err |-> NoError,
              pulled |-> c.pulled]

NoTemplateData ==
    [tag |-> "none", keys |-> {}, versions |-> << >>, err |-> NoError,
     pulled |-> 0]

\* ------------------------------------------------- ReleaseCommand::execute

Running == [tag |-> "running", err |-> NoError]
Failed(e) == [tag |-> "Err", err |-> e]
Succeeded == [tag |-> "Ok", err |-> NoError]

Init ==
    /\ workdir \in WorkDirs
    /\ fragment_dir = << Normal(t_frags) >>
    /\ template_path \in TemplatePaths
    /\ \E others \in DistinctSeqs(MaxEntries) : \E pos \in 0..Len(others) :
          walk = InsertAt(others, pos, TemplateEntry(template_path))
    /\ pc = "read_template"
    /\ trace = << >>
    /\ template_data = NoTemplateData
    /\ changelog_file \in {"absent", "old"}
    /\ outcome = Running
    /\ path = << >>
    /\ path_version = VersionNone

Fail(e) ==
    /\ pc' = "failed"
    /\ outcome' = Failed(e)

\* std::fs::read_to_string(template_path)?
ReadTemplate ==
    /\ pc = "read_template"
    /\ \E ok \in BOOLEAN :
          IF ok THEN pc' = "new_handlebars" /\ outcome' = outcome
          ELSE Fail(ErrIo)
    /\ UNCHANGED << workdir, fragment_dir, template_path, walk, trace,
                    template_data, changelog_file, path, path_version >>

\* crate::template::new_handlebars(&template_source)?
NewHandlebars ==
    /\ pc = "new_handlebars"
    /\ \E ok \in BOOLEAN :
          IF ok THEN pc' = "compute" /\ outcome' = outcome
          ELSE Fail([kind |-> "HandlebarsTemplate", path |-> NoPath])
    /\ UNCHANGED << workdir, fragment_dir, template_path, walk, trace,
                    template_data, changelog_file, path, path_version >>

\* compute_template_data(load_release_files(workdir, config))?
ComputeTemplateData ==
    /\ pc = "compute"
    /\ LET steps == load_release_files(workdir, fragment_dir, walk)
           data == compute_template_data(steps)
       IN  /\ template_data' = data
           /\ trace' = SubSeq(steps, 1, data.pulled)
           /\ IF data.tag = "Err" THEN Fail(data.err)
              ELSE pc' = "render" /\ outcome' = outcome
    /\ UNCHANGED << workdir, fragment_dir, template_path, walk,
                    changelog_file, path, path_version >>

\* A variant of the rendering step with the changelog file opened (created,
\* truncated) before the template is rendered.
RenderAfterOpen ==
    /\ pc = "render"
    /\ changelog_file' = "empty"
    /\ \E ok \in BOOLEAN :
          IF ok THEN pc' = "open" /\ outcome' = outcome
          ELSE Fail([kind |-> "HandlebarsRender", path |-> NoPath])
    /\ UNCHANGED << workdir, fragment_dir, template_path, walk, trace,
                    template_data, path, path_version >>

\* template.render(INTERNAL_TEMPLATE_NAME, &template_data)?
Render ==
    /\ pc = "render"
    /\ \E ok \in BOOLEAN :
          IF ok THEN pc' = "open" /\ outcome' = outcome
          ELSE Fail([kind |-> "HandlebarsRender", path |-> NoPath])
    /\ UNCHANGED << workdir, fragment_dir, template_path, walk, trace,
                    template_data, changelog_file, path, path_version >>

\* OpenOptions::new().create(true).append(false).truncate(true).write(true)
\*     .open(changelog_file_path)?
OpenChangelog ==
    /\ pc = "open"
    /\ \E ok \in BOOLEAN :
          IF ok
          THEN /\ changelog_file' = "empty"
               /\ pc' = "write"
               /\ outcome' = outcome
          ELSE /\ changelog_file' = changelog_file
               /\ Fail(ErrIo)
    /\ UNCHANGED << workdir, fragment_dir, template_path, walk, trace,
                    template_data, path, path_version >>

\* write!(changelog_file, "{}", changelog_contents)?
WriteChangelog ==
    /\ pc = "write"
    /\ \E ok \in BOOLEAN :
          IF ok
          THEN /\ changelog_file' = "rendered"
               /\ pc' = "sync"
               /\ outcome' = outcome
          ELSE /\ changelog_file' \in {"empty", "partial"}
               /\ Fail(ErrIo)
    /\ UNCHANGED << workdir, fragment_dir, template_path, walk, trace,
                    template_data, path, path_version >>

\* changelog_file.sync_all()
SyncAll ==
    /\ pc = "sync"
    /\ \E ok \in BOOLEAN :
          IF ok THEN pc' = "done" /\ outcome' = Succeeded
          ELSE Fail(ErrIo)
    /\ UNCHANGED << workdir, fragment_dir, template_path, walk, trace,
                    template_data, changelog_file, path, path_version >>

Next ==
    \/ ReadTemplate
    \/ NewHandlebars
    \/ ComputeTemplateData
    \/ Render
    \/ OpenChangelog
    \/ WriteChangelog
    \/ SyncAll

Spec == Init /\ [][Next]_vars

\* ------------------------------------------- get_version_from_path, alone

PathComponents ==
    { RootDir, ParentDir, NonUtf8,
      Normal(t_frags), Normal(t_a_md), Normal(t_1_0), Normal(t_01_0_0),
      Normal(t_0_1_0), Normal(t_2_0_0), Normal(t_1_0_0_alpha),
      Normal(t_1_0_0_b7) }

Paths(n) == UNION { [1..k -> PathComponents] : k \in 0..n }

InitPath ==
    /\ path \in Paths(MaxDepth)
    /\ path_version = VersionNone
    /\ pc = "path_call"
    /\ workdir = << >>
    /\ fragment_dir = << >>
    /\ template_path = << >>
    /\ walk = << >>
    /\ trace = << >>
    /\ template_data = NoTemplateData
    /\ changelog_file = "absent"
    /\ outcome = Running

GetVersionFromPath ==
    /\ pc = "path_call"
    /\ path_version' = get_version_from_path(path)
    /\ pc' = "path_done"
    /\ UNCHANGED << workdir, fragment_dir, template_path, walk, trace,
                    template_data, changelog_file, outcome, path >>

NextPath == GetVersionFromPath

SpecPath == InitPath /\ [][NextPath]_vars

\* ------------------------------------------------------------- properties

\* compute_template_data has just returned: to execute's next step, or its
\* error has made execute fail.  No later step changes what it returned.
Computed ==
    \/ pc = "render" /\ template_data.tag = "Ok"
    \/ pc = "failed" /\ template_data.tag = "Err"

\* Semantic-version precedence, what the claims measure the order of the
\* buckets against.  Two pre-release identifiers: numeric ones by value and
\* below alphanumeric ones, alphanumeric ones in byte order.
IdentLess(a, b) ==
    IF AllDigits(a) /\ AllDigits(b) THEN StrToNat(a) < StrToNat(b)
    ELSE IF AllDigits(a) THEN TRUE
    ELSE IF AllDigits(b) THEN FALSE
    ELSE StrLess(a, b)

RECURSIVE IdentsLess(_, _)
IdentsLess(as, bs) ==
    IF bs = << >> THEN FALSE
    ELSE IF as = << >> THEN TRUE
    ELSE IF Head(as) # Head(bs) THEN IdentLess(Head(as), Head(bs))
    ELSE IdentsLess(Tail(as), Tail(bs))

\* A pre-release version precedes the release; two pre-releases compare
\* identifier by identifier.
PreLess(p, q) ==
    IF p = << >> THEN FALSE
    ELSE IF q = << >> THEN TRUE
    ELSE IdentsLess(SplitOn(p, "."), SplitOn(q, "."))

\* Semantic-version precedence, a < b (build metadata does not take part).
SemverLess(a, b) ==
    IF a.major # b.major THEN a.major < b.major
    ELSE IF a.minor # b.minor THEN a.minor < b.minor
    ELSE IF a.patch # b.patch THEN a.patch < b.patch
    ELSE PreLess(a.pre, b.pre)

\* A component whose text parses as a semantic version.
IsVersionLike(comp) ==
    comp.kind = "Normal" /\ comp.utf8 /\ VersionParse(comp.text).ok

VersionLikeAt(p) == { i \in 1..Len(p) : IsVersionLike(p[i]) }

FirstVersionLike(p) ==
    CHOOSE i \in VersionLikeAt(p) : \A j \in VersionLikeAt(p) : i <= j

AllUtf8(p) == \A i \in 1..Len(p) : p[i].utf8

\* The path of the walk's i-th entry, as the release flow sees it.
PathAt(i) == EntryPath(workdir, fragment_dir, walk[i])

\* C1: the buckets under "versions" ascend by the parsed semantic version:
\* of two adjacent buckets the first one's version precedes the second's.
C1_BucketsAscendBySemver ==
    (Computed /\ template_data.tag = "Ok") =>
        \A i \in 1..(Len(template_data.versions) - 1) :
            SemverLess(VersionParse(template_data.versions[i].version),
                       VersionParse(template_data.versions[i + 1].version))

\* C2: fail-fast.  If load_release_files yields an error for some entry of
\* the walk, then compute_template_data returns the first one in discovery
\* order, pulls nothing after it and returns no template data, and execute
\* fails with that error; and every fragment in a bucket is a file that
\* decoded.
C2_FailFastFirstError ==
    Computed =>
        LET steps == load_release_files(workdir, fragment_dir, walk)
            errorsAt == { i \in 1..Len(walk) : steps[i].yield = "err" }
            first == CHOOSE i \in errorsAt : \A j \in errorsAt : i <= j
            firstError == steps[first].err
        IN  /\ errorsAt # {} =>
                  /\ template_data.tag = "Err"
                  /\ template_data.err = firstError
                  /\ template_data.pulled = first
                  /\ template_data.keys = {}
                  /\ template_data.versions = << >>
                  /\ pc = "failed"
                  /\ outcome = Failed(firstError)
            /\ \A b \in 1..Len(template_data.versions) :
                  \A k \in 1..Len(template_data.versions[b].entries) :
                     \E i \in 1..Len(walk) :
                        /\ PathAt(i) = template_data.versions[b].entries[k]
                        /\ walk[i].kind = "file"
                        /\ walk[i].content = "fragment"

\* C2's case: a decoded fragment was pulled, then an error ended the run.
C2_Witness ==
    /\ Computed
    /\ template_data.tag = "Err"
    /\ \E i \in 1..Len(trace) : trace[i].yield = "ok"
    /\ trace[Len(trace)].err.kind = "FragmentError"

\* C3 as stated: for every path with a version-like component, the result
\* is the version of the first such component.
C3_FirstVersionOfEveryPath ==
    (pc = "path_done" /\ VersionLikeAt(path) # {}) =>
        path_version =
            VersionSome(VersionParse(path[FirstVersionLike(path)].text))

\* C3, amended: for every path whose components before the first
\* version-like one are all valid UTF-8, the result is the version of the
\* first version-like component, whatever its depth and whatever follows.
C3_FirstVersionAfterUtf8 ==
    (/\ pc = "path_done"
     /\ VersionLikeAt(path) # {}
     /\ AllUtf8(SubSeq(path, 1, FirstVersionLike(path) - 1))) =>
        path_version =
            VersionSome(VersionParse(path[FirstVersionLike(path)].text))

\* C3's case: two version-like components, the first below other
\* components, and the first one's version returned.
C3_Witness ==
    /\ pc = "path_done"
    /\ Cardinality(VersionLikeAt(path)) = 2
    /\ FirstVersionLike(path) = 2
    /\ path[2].text # path[3].text
    /\ path_version = VersionSome(VersionParse(path[2].text))

\* C4 as stated: a path with no version-like component yields Ok(None).
C4_NoVersionNeverAnError ==
    (pc = "path_done" /\ VersionLikeAt(path) = {}) =>
        path_version = VersionNone

\* C4, amended: a path with no version-like component, all of whose
\* components are valid UTF-8, yields Ok(None) and no error.
C4_NoVersionUtf8IsNone ==
    (pc = "path_done" /\ VersionLikeAt(path) = {} /\ AllUtf8(path)) =>
        path_version = VersionNone

\* C4's case: a path of several components, one of them almost a version
\* ("01.0.0"), none a version, and Ok(None) returned.
C4_Witness ==
    /\ pc = "path_done"
    /\ Len(path) >= 2
    /\ VersionLikeAt(path) = {}
    /\ AllUtf8(path)
    /\ \E i \in 1..Len(path) : path[i] = Normal(t_01_0_0)
    /\ path_version = VersionNone

\* C5: the template file fragment_dir/template_path is never a candidate:
\* it is not opened and nothing is yielded for it, neither an item nor an
\* error; and no other regular file is left out by its name.
C5_TemplateFileNeverCandidate ==
    Computed =>
        \A i \in 1..Len(trace) :
            /\ walk[i] = TemplateEntry(template_path) =>
                  (trace[i].yield = "none" /\ ~trace[i].opened)
            /\ (walk[i].kind = "file" /\ walk[i] # TemplateEntry(template_path))
                  => FirstFilter(workdir, fragment_dir, walk[i]) = "candidate"

\* C6: a fragment's version is that of its path below the fragment
\* directory, and a file with no version-like component below the fragment
\* directory is not opened and yields nothing.
C6_VersionFromRelativePath ==
    Computed =>
        \A i \in 1..Len(trace) :
            /\ trace[i].yield = "ok" =>
                  get_version_from_path(walk[i].rel)
                      = VersionSome(trace[i].version)
            /\ (walk[i].kind = "file" /\ AllUtf8(walk[i].rel)
                    /\ VersionLikeAt(walk[i].rel) = {}) =>
                  (trace[i].yield = "none" /\ ~trace[i].opened)

\* C7: an error of opening or decoding a candidate file names the file's
\* path.
C7_DecodeErrorsNameThePath ==
    Computed =>
        \A i \in 1..Len(trace) :
            (trace[i].yield = "err" /\ trace[i].opened) =>
                trace[i].err.path = PathAt(i)

Skippable(e) ==
    /\ e.kind = "file"
    /\ AllUtf8(EntryPath(workdir, fragment_dir, e))
    /\ VersionLikeAt(EntryPath(workdir, fragment_dir, e)) = {}

NotSkippable(e) == ~Skippable(e)

KeysPulled ==
    { VersionToString(trace[i].version) :
        i \in { j \in 1..Len(trace) : trace[j].yield = "ok" } }

FragmentsPulled(key) ==
    LET Has(s) == s.yield = "ok" /\ VersionToString(s.version) = key
        sel == SelectSeq(trace, Has)
    IN  [i \in 1..Len(sel) |-> sel[i].fragment]

\* C9: for an error-free input the result has the one key "versions", one
\* bucket per distinct version string, and each bucket holds exactly the
\* fragments of its version, each once, in the order they came.
C9_OneBucketPerVersionInOrder ==
    (Computed /\ template_data.tag = "Ok") =>
        LET vs == template_data.versions
        IN  /\ template_data.keys = {"versions"}
            /\ Len(vs) = Cardinality(KeysPulled)
            /\ { vs[i].version : i \in 1..Len(vs) } = KeysPulled
            /\ \A i \in 1..Len(vs) :
                  vs[i].entries = FragmentsPulled(vs[i].version)

\* C9's case: two fragments of one version in one bucket.
C9_Witness ==
    /\ Computed
    /\ template_data.tag = "Ok"
    /\ \E i \in 1..Len(template_data.versions) :
          Len(template_data.versions[i].entries) = 2

\* C10: until rendering has succeeded no step of execute touches the
\* changelog file, whether the step succeeds or fails.
C10_ChangelogUntouchedBeforeRendered ==
    [][(pc \in {"read_template", "new_handlebars", "compute", "render"})
           => (changelog_file' = changelog_file)]_vars

\* C10's case: execute failed in rendering and the old changelog is there.
C10_Witness ==
    /\ pc = "failed"
    /\ outcome.err.kind = "HandlebarsRender"
    /\ changelog_file = "old"

====
